---- MODULE Spec2Model ----
(***************************************************************************)
(* Order management service: the order status state machine, the payment   *)
(* simulator and the order totals calculator, as state machines.           *)
(*                                                                         *)
(* Money.  The totals calculator works on item prices given in mills       *)
(* (1/1000 of a currency unit) and computes in units of 1/10000, so that   *)
(* subtotal * 0.1 is exact.  Number(x.toFixed(2)) is the rounding of such  *)
(* a value to cents, ties upwards.  Stored amounts are in cents.  Binary   *)
(* floating point error is not modelled.                                   *)
(*                                                                         *)
(* Store.  The order collection is a function from document ids to         *)
(* documents.  findById and save may throw (connection loss, validation):  *)
(* each handler takes the fault as an input.  Address, notes, payment      *)
(* method, order number and timestamp fields of a document are written     *)
(* but never read by the handlers modelled here and are left out.          *)
(*                                                                         *)
(* Calls.  A client call is received (Receive) and then handled by one     *)
(* action that models the whole method, its catch block included.  call    *)
(* holds the call being handled, resp what the latest handled call         *)
(* returned or threw, simLast the payment simulator invocation it made.    *)
(* The simulated processing delay changes no state and is left out.        *)
(*                                                                         *)
(* Lists.  Documents are created in the order of their ids, one per        *)
(* millisecond, so that sorting by creation time is sorting by id.         *)
(* PageSpec runs getOrdersByUserId alone on collections of several orders. *)
(*                                                                         *)
(* Order numbers.  NumbersSpec runs the pre-save hook of several           *)
(* overlapping creations step by step: count, clock reading, insert.       *)
(*                                                                         *)
(* Controller.  HttpSpec puts the controller in front of the service: a    *)
(* request arrives (HttpReceive), the controller method checks its body    *)
(* and calls the service (Validate), the service handles the call, and     *)
(* the controller answers (Respond).                                       *)
(***************************************************************************)
EXTENDS Integers, Sequences, FiniteSets, TLC

\* ------------------------------------------------------------- bounds
MaxOrders == 1
MaxPayments == 2
MaxItems == 2
MaxCreators == 3
MaxClock == 2
MaxDocs == 4
MaxPage == 2
MaxLimit == 2
MaxTasks == 2

\* ---------------------------------------------------- program constants
PaymentCeiling == 10000
FreeShippingOver == 50
ShippingFee == 10
DiscountOver == 100
DefaultPage == 1
DefaultLimit == 10

\* Units of 1/10000 in one currency unit, and in one cent.
Unit == 100 * 100
CentUnit == 10 * 10

\* -------------------------------------------------------------- enums
OrderStatus ==
  {"pending", "confirmed", "processing", "shipped", "delivered", "cancelled", "refunded"}

PaymentStatus == {"pending", "processing", "completed", "failed", "refunded"}

PaymentMethod == {"credit_card", "debit_card", "paypal", "stripe", "bank_transfer"}

\* Values of Math.random(), in hundredths.
RandomDraws == {3, 7, 50}

\* Where the store throws during a handler.
Faults == {"none", "find", "save"}

\* Item total prices, in mills.
ItemPrices == {4, 14, 10014, 25000, 50000, 50001, 100000, 100001}

Users == {1, 2}

\* Requests clients submit to createOrder (item prices in mills).
CreateRequests ==
  {[userId |-> 1, items |-> <<40000>>, currency |-> "USD"],
   [userId |-> 2, items |-> <<5000000, 5000000>>, currency |-> "EUR"],
   [userId |-> 1, items |-> <<10000010>>, currency |-> "USD"]}

\* A page or limit argument that the caller leaves out.
Undefined == -1

\* The page and limit arguments of getOrdersByUserId.
PageArgs ==
  [page : {Undefined} \cup (1 .. MaxPage), limit : {Undefined} \cup (1 .. MaxLimit)]

\* Those of them that clients send while they also send other calls.
FewPageArgs ==
  {[page |-> Undefined, limit |-> Undefined], [page |-> 2, limit |-> 1]}

OrderIds == 1 .. MaxOrders

NoOrder == [status |-> "none"]

NoTotals == [subtotal |-> -1]

\* ------------------------------------------------- totals calculator
RECURSIVE Sum(_)
Sum(items) == IF items = <<>> THEN 0 ELSE Head(items) + Sum(Tail(items))

\* Number(x.toFixed(2)): a value in units of 1/10000 rounded to cents.
ToFixed2(x) == (x + (CentUnit \div 2)) \div CentUnit

\* Mutant of shippingFor: shipping is free from the threshold on.
shippingFor_FreeAtThreshold(subtotal) ==
  IF subtotal >= FreeShippingOver * Unit THEN 0 ELSE ShippingFee * Unit

\* The shipping charge for an unrounded subtotal.
shippingFor(subtotal) ==
  IF subtotal > FreeShippingOver * Unit THEN 0 ELSE ShippingFee * Unit

\* Mutant of discountFor: the discount is granted from the threshold on.
discountFor_FromThreshold(subtotal) ==
  IF subtotal >= DiscountOver * Unit THEN subtotal \div 10 ELSE 0

\* The discount for an unrounded subtotal.
discountFor(subtotal) ==
  IF subtotal > DiscountOver * Unit THEN subtotal \div 10 ELSE 0

calculateOrderTotals(items) ==
  LET subtotal == Sum(items) * 10
      taxAmount == subtotal \div 10
      shippingAmount == shippingFor(subtotal)
      discountAmount == discountFor(subtotal)
      totalAmount == subtotal + taxAmount + shippingAmount - discountAmount
  IN  [subtotal |-> ToFixed2(subtotal),
       taxAmount |-> ToFixed2(taxAmount),
       shippingAmount |-> ToFixed2(shippingAmount),
       discountAmount |-> ToFixed2(discountAmount),
       totalAmount |-> ToFixed2(totalAmount)]

\* ------------------------------------------ status transition validator
\* Mutant of validTransitions: every status may also stay as it is.
validTransitions_SelfAllowed ==
  [s \in OrderStatus |->
     CASE s = "pending" -> {"pending", "confirmed", "cancelled"}
       [] s = "confirmed" -> {"confirmed", "processing", "cancelled"}
       [] s = "processing" -> {"processing", "shipped", "cancelled"}
       [] s = "shipped" -> {"shipped", "delivered"}
       [] s = "delivered" -> {"delivered", "refunded"}
       [] s = "cancelled" -> {"cancelled"}
       [] s = "refunded" -> {"refunded"}]

validTransitions ==
  [s \in OrderStatus |->
     CASE s = "pending" -> {"confirmed", "cancelled"}
       [] s = "confirmed" -> {"processing", "cancelled"}
       [] s = "processing" -> {"shipped", "cancelled"}
       [] s = "shipped" -> {"delivered"}
       [] s = "delivered" -> {"refunded"}
       [] s = "cancelled" -> {}
       [] s = "refunded" -> {}]

\* "ok", or the error the validator throws.
validateStatusTransition(currentStatus, newStatus) ==
  IF newStatus \notin validTransitions[currentStatus] THEN "BusinessError" ELSE "ok"

\* ---------------------------------------------------- payment simulator
\* Mutant of simulatePaymentOutcome: a debit card is declined like a credit
\* card.
simulatePaymentOutcome_DebitDeclines(paymentData, paymentId, r) ==
  IF paymentData.amount > PaymentCeiling * 100
    THEN [error |-> "PaymentError", status |-> "none", paymentId |-> 0]
  ELSE IF paymentData.paymentMethod \in {"credit_card", "debit_card"} /\ r < 10
    THEN [error |-> "none", status |-> "failed", paymentId |-> paymentId]
  ELSE IF paymentData.paymentMethod = "paypal" /\ r < 5
    THEN [error |-> "none", status |-> "failed", paymentId |-> paymentId]
  ELSE [error |-> "none", status |-> "completed", paymentId |-> paymentId]

\* Mutant of simulatePaymentOutcome: no amount is over the limit.
simulatePaymentOutcome_NoCeiling(paymentData, paymentId, r) ==
  IF paymentData.paymentMethod = "credit_card" /\ r < 10
    THEN [error |-> "none", status |-> "failed", paymentId |-> paymentId]
  ELSE IF paymentData.paymentMethod = "paypal" /\ r < 5
    THEN [error |-> "none", status |-> "failed", paymentId |-> paymentId]
  ELSE [error |-> "none", status |-> "completed", paymentId |-> paymentId]

\* Mutant of simulatePaymentOutcome: the ceiling itself is rejected too.
simulatePaymentOutcome_CeilingInclusive(paymentData, paymentId, r) ==
  IF paymentData.amount >= PaymentCeiling * 100
    THEN [error |-> "PaymentError", status |-> "none", paymentId |-> 0]
  ELSE IF paymentData.paymentMethod = "credit_card" /\ r < 10
    THEN [error |-> "none", status |-> "failed", paymentId |-> paymentId]
  ELSE IF paymentData.paymentMethod = "paypal" /\ r < 5
    THEN [error |-> "none", status |-> "failed", paymentId |-> paymentId]
  ELSE [error |-> "none", status |-> "completed", paymentId |-> paymentId]

\* The outcome for a request; paymentId is the uuid generated for it, r the
\* value of Math.random() the method's branch draws.
simulatePaymentOutcome(paymentData, paymentId, r) ==
  IF paymentData.amount > PaymentCeiling * 100
    THEN [error |-> "PaymentError", status |-> "none", paymentId |-> 0]
  ELSE IF paymentData.paymentMethod = "credit_card" /\ r < 10
    THEN [error |-> "none", status |-> "failed", paymentId |-> paymentId]
  ELSE IF paymentData.paymentMethod = "paypal" /\ r < 5
    THEN [error |-> "none", status |-> "failed", paymentId |-> paymentId]
  ELSE [error |-> "none", status |-> "completed", paymentId |-> paymentId]

\* ------------------------------------------------------ error taxonomy
\* The classes derived from CustomError.
CustomError ==
  {"ValidationError", "NotFoundError", "BusinessError", "PaymentError", "DatabaseError"}

\* Mutant of RethrowTyped: every error is wrapped as a DatabaseError.
RethrowTyped_WrapsAll(error) == "DatabaseError"

\* The catch block of getOrderById, updateOrderStatus, processPayment and
\* cancelOrder: what the handler throws for an error raised in its body.
\* "Error" is an exception of the store driver.
RethrowTyped(error) == IF error \in CustomError THEN error ELSE "DatabaseError"

\* The catch block of createOrder.
RethrowCreate(error) == "DatabaseError"

\* The catch block of getOrdersByUserId.
RethrowFetch(error) == "DatabaseError"

\* ------------------------------------------------------- paginated list
\* Documents are created in the order of their ids, so that sorting by
\* creation time is sorting by id.
\* OrderModel.countDocuments({ userId }) and the documents it counts.
matching(collection, userId) ==
  {id \in DOMAIN collection :
     collection[id] # NoOrder /\ collection[id].userId = userId}

countDocuments(collection, userId) == Cardinality(matching(collection, userId))

\* .sort({ createdAt: -1 }): the ids, latest first.
RECURSIVE sortDescending(_)
sortDescending(ids) ==
  IF ids = {} THEN <<>>
  ELSE LET latest == CHOOSE id \in ids : \A other \in ids : other <= id
       IN  <<latest>> \o sortDescending(ids \ {latest})

\* OrderModel.find({ userId }).sort({ createdAt: -1 }).skip(skip).limit(limit),
\* for a limit of 1 or more.
find(collection, userId, skip, limit) ==
  LET sorted == sortDescending(matching(collection, userId))
      last == IF skip + limit < Len(sorted) THEN skip + limit ELSE Len(sorted)
  IN  SubSeq(sorted, skip + 1, last)

\* Math.ceil(total / limit), for a limit of 1 or more.
Ceil(total, limit) == (total + limit - 1) \div limit

\* Mutant of pageSkip: the first page skips a page.
pageSkip_FromPage(page, limit) == page * limit

pageSkip(page, limit) == (page - 1) * limit

\* What getOrdersByUserId asks of the store (skip, limit) and returns.
getOrdersByUserId(collection, userId, pageArg, limitArg) ==
  LET page == IF pageArg = Undefined THEN DefaultPage ELSE pageArg
      limit == IF limitArg = Undefined THEN DefaultLimit ELSE limitArg
      skip == pageSkip(page, limit)
      total == countDocuments(collection, userId)
  IN  [skip |-> skip,
       limit |-> limit,
       orders |-> find(collection, userId, skip, limit),
       total |-> total,
       page |-> page,
       totalPages |-> Ceil(total, limit)]

\* ---------------------------------------------------------------- state
VARIABLES
  orders,    \* the order collection: document id -> document, or NoOrder
  simCalls,  \* the number of payment simulator invocations so far
  call,      \* the service call being handled, or Idle
  resp,      \* what the latest handled call returned or threw
  simLast,   \* the payment simulator invocation made by the latest handled call
  calcIn,    \* an item list handed to the totals calculator
  calcOut,   \* the totals it returned for calcIn
  now,       \* Date.now(), in milliseconds
  creators,  \* the position of each overlapping save of a new order
  numbers,   \* the order numbers of the persisted documents, in insertion order
  listed,    \* the page of orders the latest handled call asked for and returned
  req,       \* the HTTP request the controller is handling, or NoReq
  http,      \* the HTTP response to the latest handled request
  fetched,   \* what the latest handled getOrderById found for which id
  tasks,     \* the overlapping calls on one order: what each has read and done
  pay,       \* the run of the payment service under way, step by step
  reader     \* a getOrdersByUserId call whose two reads are under way

numberVars == <<now, creators, numbers>>

httpVars == <<req, http>>

raceVars == <<tasks, pay, reader>>

vars ==
  <<orders, simCalls, call, resp, simLast, calcIn, calcOut, numberVars, listed, httpVars,
    fetched, raceVars>>

Idle == [op |-> "none", id |-> 0, arg |-> "none"]

NoReply == [op |-> "none", res |-> "none", threw |-> FALSE]

NoSim == [amount |-> 0, currency |-> "none", outcome |-> "none", paymentId |-> 0]

NoPage == [total |-> -1]

NoFetch == [id |-> 0, order |-> NoOrder]

NoReq == [route |-> "none"]

NoHttp == [status |-> 0]

Tasks == 1 .. MaxTasks

NoTask ==
  [op |-> "none", arg |-> "none", pc |-> "start", read |-> NoOrder, mine |-> NoOrder,
   outcome |-> "none", res |-> "none"]

NoPay ==
  [pc |-> "none", amount |-> 0, paymentMethod |-> "none", elapsed |-> 0,
   draws |-> 0, paymentId |-> 0, outcome |-> "none"]

NoReader ==
  [pc |-> "none", userId |-> 0, page |-> 0, limit |-> 0, pending |-> {},
   found |-> <<>>, total |-> -1, instants |-> {}, result |-> NoPage]

\* No overlapping call, payment service run or paginated read is under way.
RaceIdle ==
  /\ tasks = [t \in Tasks |-> NoTask]
  /\ pay = NoPay
  /\ reader = NoReader

\* No HTTP request is being handled and none has been answered.
HttpIdle ==
  /\ req = NoReq
  /\ http = NoHttp

\* The result of a call: threw tells whether the store threw during it.
Reply(op, threw, res) == [op |-> op, res |-> res, threw |-> threw]

ItemLists == UNION {[1 .. n -> ItemPrices] : n \in 1 .. MaxItems}

\* The calls a client can make.  createOrder carries the request body, the
\* others the id of an order (existing or not) and their argument.
Calls ==
  {[op |-> "createOrder", id |-> 0, arg |-> orderData] : orderData \in CreateRequests}
    \cup {[op |-> "getOrderById", id |-> id, arg |-> "none"] : id \in OrderIds}
    \cup {[op |-> "updateOrderStatus", id |-> id, arg |-> status] :
            id \in OrderIds, status \in OrderStatus}
    \cup {[op |-> "processPayment", id |-> id, arg |-> paymentMethod] :
            id \in OrderIds, paymentMethod \in PaymentMethod}
    \cup {[op |-> "cancelOrder", id |-> id, arg |-> "none"] : id \in OrderIds}
    \cup {[op |-> "getOrdersByUserId", id |-> userId, arg |-> paging] :
            userId \in Users, paging \in FewPageArgs}

Creators == 1 .. MaxCreators

NotSaving == [pc |-> "start", count |-> 0, orderNumber |-> <<>>]

\* No save of a new order is under way and nothing has been persisted.
NumbersIdle ==
  /\ now = 1
  /\ creators = [p \in Creators |-> NotSaving]
  /\ numbers = <<>>

Init ==
  /\ orders = [id \in OrderIds |-> NoOrder]
  /\ simCalls = 0
  /\ call = Idle
  /\ resp = NoReply
  /\ simLast = NoSim
  /\ calcIn = <<>>
  /\ calcOut = NoTotals
  /\ NumbersIdle
  /\ listed = NoPage
  /\ HttpIdle
  /\ fetched = NoFetch
  /\ RaceIdle

\* ------------------------------------------------------------ handlers
\* A client calls the service.  Calls are handled one after another; the
\* collection is full after MaxOrders documents and the simulator is used at
\* most MaxPayments times.
Receive(c) ==
  /\ call = Idle
  /\ c.op = "createOrder" => \E free \in OrderIds : orders[free] = NoOrder
  /\ c.op = "processPayment" => simCalls < MaxPayments
  /\ call' = c
  /\ resp' = NoReply
  /\ simLast' = NoSim
  /\ listed' = NoPage
  /\ fetched' = NoFetch
  /\ UNCHANGED <<orders, simCalls, calcIn, calcOut, numberVars, httpVars, raceVars>>

\* The orderNumber of a document that has not been saved yet.
NoNumber == <<>>

\* The order number the pre-save hook gives a new document: the clock
\* reading and the document count plus one.
orderNumberFor(ms, count) == <<ms, count + 1>>

\* mongoose.model('Order').countDocuments()
documentCount(collection) ==
  Cardinality({id \in DOMAIN collection : collection[id] # NoOrder})

\* Mutant of preSave: the order number is generated on every save.
preSave_EverySave(order, isNew, ms, count) ==
  [order EXCEPT !.orderNumber = orderNumberFor(ms, count)]

\* The pre('save') hook of the schema: the document as it is written.
preSave(order, isNew, ms, count) ==
  IF isNew THEN [order EXCEPT !.orderNumber = orderNumberFor(ms, count)]
  ELSE order

\* Mutant of NewOrder: the new document starts out confirmed.
NewOrder_Confirmed(userId, items, currency) ==
  LET totals == calculateOrderTotals(items)
  IN  [status |-> "confirmed",
       userId |-> userId,
       items |-> items,
       subtotal |-> totals.subtotal,
       taxAmount |-> totals.taxAmount,
       shippingAmount |-> totals.shippingAmount,
       discountAmount |-> totals.discountAmount,
       totalAmount |-> totals.totalAmount,
       currency |-> currency,
       paymentStatus |-> "pending",
       paymentId |-> 0,
       orderNumber |-> NoNumber]

\* The document createOrder builds from the request.
NewOrder(userId, items, currency) ==
  LET totals == calculateOrderTotals(items)
  IN  [status |-> "pending",
       userId |-> userId,
       items |-> items,
       subtotal |-> totals.subtotal,
       taxAmount |-> totals.taxAmount,
       shippingAmount |-> totals.shippingAmount,
       discountAmount |-> totals.discountAmount,
       totalAmount |-> totals.totalAmount,
       currency |-> currency,
       paymentStatus |-> "pending",
       paymentId |-> 0,
       orderNumber |-> NoNumber]

\* The id the store gives the next document.
NextId ==
  CHOOSE free \in OrderIds :
    /\ orders[free] = NoOrder
    /\ \A other \in OrderIds : orders[other] = NoOrder => free <= other

CreateOrder(fault) ==
  /\ call.op = "createOrder"
  /\ IF fault = "save"
       THEN /\ resp' = Reply("createOrder", TRUE, RethrowCreate("Error"))
            /\ orders' = orders
       ELSE /\ orders' =
                 [orders EXCEPT ![NextId] =
                    preSave(NewOrder(call.arg.userId, call.arg.items, call.arg.currency),
                            TRUE, now, documentCount(orders))]
            /\ resp' = Reply("createOrder", FALSE, "ok")
  /\ call' = Idle
  /\ UNCHANGED <<simCalls, simLast, calcIn, calcOut, numberVars, listed, httpVars, fetched,
               raceVars>>

\* Mutant of lookupRefusal: an absent order is returned as it is.
lookupRefusal_NullReturned(order) == "none"

\* The check of getOrderById on what findById returned: the error thrown,
\* or "none".
lookupRefusal(order) == IF order = NoOrder THEN "NotFoundError" ELSE "none"

\* fetched holds the order returned, or the id the NotFoundError names.
GetOrderById(fault) ==
  /\ call.op = "getOrderById"
  /\ LET order == orders[call.id]
         thrown == IF fault = "find" THEN "Error" ELSE lookupRefusal(order)
     IN  /\ resp' = IF thrown # "none"
                      THEN Reply("getOrderById", thrown = "Error", RethrowTyped(thrown))
                      ELSE Reply("getOrderById", FALSE, "ok")
         /\ fetched' = IF thrown = "Error" THEN NoFetch
                       ELSE [id |-> call.id, order |-> order]
  /\ call' = Idle
  /\ UNCHANGED <<orders, simCalls, simLast, calcIn, calcOut, numberVars, listed, httpVars,
               raceVars>>

GetOrdersByUserId(fault) ==
  /\ call.op = "getOrdersByUserId"
  /\ IF fault = "find"
       THEN /\ resp' = Reply("getOrdersByUserId", TRUE, RethrowFetch("Error"))
            /\ listed' = NoPage
       ELSE /\ resp' = Reply("getOrdersByUserId", FALSE, "ok")
            /\ listed' = getOrdersByUserId(orders, call.id, call.arg.page, call.arg.limit)
  /\ call' = Idle
  /\ UNCHANGED <<orders, simCalls, simLast, calcIn, calcOut, numberVars, httpVars, fetched,
               raceVars>>

UpdateOrderStatus(fault) ==
  /\ call.op = "updateOrderStatus"
  /\ LET order == orders[call.id]
         thrown ==
           IF fault = "find" THEN "Error"
           ELSE IF order = NoOrder THEN "NotFoundError"
           ELSE IF validateStatusTransition(order.status, call.arg) # "ok"
             THEN validateStatusTransition(order.status, call.arg)
           ELSE IF fault = "save" THEN "Error"
           ELSE "none"
     IN  IF thrown # "none"
           THEN /\ resp' = Reply("updateOrderStatus", thrown = "Error", RethrowTyped(thrown))
                /\ orders' = orders
           ELSE /\ orders' =
                     [orders EXCEPT ![call.id] =
                        preSave([order EXCEPT !.status = call.arg],
                                FALSE, now, documentCount(orders))]
                /\ resp' = Reply("updateOrderStatus", FALSE, "ok")
  /\ call' = Idle
  /\ UNCHANGED <<simCalls, simLast, calcIn, calcOut, numberVars, listed, httpVars, fetched,
               raceVars>>

\* Mutant of paymentRefusal: a paid order is not refused.
paymentRefusal_NoCompletedCheck(order) ==
  IF order = NoOrder THEN "NotFoundError"
  ELSE IF order.status = "cancelled" THEN "BusinessError"
  ELSE "none"

\* Mutant of paymentRefusal: a cancelled order is not refused.
paymentRefusal_NoCancelledCheck(order) ==
  IF order = NoOrder THEN "NotFoundError"
  ELSE IF order.paymentStatus = "completed" THEN "BusinessError"
  ELSE "none"

\* The checks of processPayment before it calls the simulator: the error
\* thrown for the order read, or "none".
paymentRefusal(order) ==
  IF order = NoOrder THEN "NotFoundError"
  ELSE IF order.paymentStatus = "completed" THEN "BusinessError"
  ELSE IF order.status = "cancelled" THEN "BusinessError"
  ELSE "none"

\* Mutant of paymentRequest: the amount charged is the subtotal.
paymentRequest_Subtotal(orderId, paymentMethod, order) ==
  [orderId |-> orderId, paymentMethod |-> paymentMethod,
   amount |-> order.subtotal, currency |-> order.currency]

\* The request processPayment hands to the payment simulator.
paymentRequest(orderId, paymentMethod, order) ==
  [orderId |-> orderId, paymentMethod |-> paymentMethod,
   amount |-> order.totalAmount, currency |-> order.currency]

\* Mutant of withPaymentResult: the order is confirmed whatever the outcome.
withPaymentResult_AlwaysConfirms(order, paymentResult) ==
  [order EXCEPT
     !.paymentStatus = paymentResult.status,
     !.paymentId = paymentResult.paymentId,
     !.status = "confirmed"]

\* The order document after processPayment has applied the outcome.
withPaymentResult(order, paymentResult) ==
  [order EXCEPT
     !.paymentStatus = paymentResult.status,
     !.paymentId = paymentResult.paymentId,
     !.status = IF paymentResult.status = "completed" THEN "confirmed" ELSE @]

ProcessPayment(r, fault) ==
  /\ call.op = "processPayment"
  /\ LET order == orders[call.id]
         refused == IF fault = "find" THEN "Error" ELSE paymentRefusal(order)
         paymentData == paymentRequest(call.id, call.arg, order)
         paymentResult == simulatePaymentOutcome(paymentData, simCalls + 1, r)
     IN  IF refused # "none"
           THEN /\ resp' = Reply("processPayment", refused = "Error", RethrowTyped(refused))
                /\ UNCHANGED <<orders, simCalls, simLast>>
           ELSE /\ simCalls' = simCalls + 1
                /\ simLast' =
                     [amount |-> paymentData.amount,
                      currency |-> paymentData.currency,
                      outcome |-> IF paymentResult.error # "none"
                                    THEN paymentResult.error ELSE paymentResult.status,
                      paymentId |-> paymentResult.paymentId]
                /\ IF paymentResult.error # "none"
                     THEN /\ resp' = Reply("processPayment", FALSE,
                                           RethrowTyped(paymentResult.error))
                          /\ orders' = orders
                   ELSE IF fault = "save"
                     THEN /\ resp' = Reply("processPayment", TRUE, RethrowTyped("Error"))
                          /\ orders' = orders
                   ELSE /\ orders' =
                             [orders EXCEPT ![call.id] =
                                preSave(withPaymentResult(order, paymentResult),
                                        FALSE, now, documentCount(orders))]
                        /\ resp' = Reply("processPayment", FALSE, "ok")
  /\ call' = Idle
  /\ UNCHANGED <<calcIn, calcOut, numberVars, listed, httpVars, fetched, raceVars>>

\* Mutant of cancelRefusal: a shipped order may be cancelled.
cancelRefusal_ShippedAllowed(order) ==
  IF order = NoOrder THEN "NotFoundError"
  ELSE IF order.status = "cancelled" THEN "BusinessError"
  ELSE IF order.status \in {"delivered"} THEN "BusinessError"
  ELSE "none"

\* The checks of cancelOrder before it changes the status: the error thrown
\* for the order read, or "none".
cancelRefusal(order) ==
  IF order = NoOrder THEN "NotFoundError"
  ELSE IF order.status = "cancelled" THEN "BusinessError"
  ELSE IF order.status \in {"delivered", "shipped"} THEN "BusinessError"
  ELSE "none"

CancelOrder(fault) ==
  /\ call.op = "cancelOrder"
  /\ LET order == orders[call.id]
         thrown ==
           IF fault = "find" THEN "Error"
           ELSE IF cancelRefusal(order) # "none" THEN cancelRefusal(order)
           ELSE IF fault = "save" THEN "Error"
           ELSE "none"
     IN  IF thrown # "none"
           THEN /\ resp' = Reply("cancelOrder", thrown = "Error", RethrowTyped(thrown))
                /\ orders' = orders
           ELSE /\ orders' =
                     [orders EXCEPT ![call.id] =
                        preSave([order EXCEPT !.status = "cancelled"],
                                FALSE, now, documentCount(orders))]
                /\ resp' = Reply("cancelOrder", FALSE, "ok")
  /\ call' = Idle
  /\ UNCHANGED <<simCalls, simLast, calcIn, calcOut, numberVars, listed, httpVars, fetched,
               raceVars>>

\* Service calls run one after another, each to completion.
Next ==
  \/ \E c \in Calls : Receive(c)
  \/ \E fault \in {"none", "save"} : CreateOrder(fault)
  \/ \E fault \in {"none", "find"} : GetOrderById(fault)
  \/ \E fault \in {"none", "find"} : GetOrdersByUserId(fault)
  \/ \E fault \in Faults : UpdateOrderStatus(fault)
  \/ \E r \in RandomDraws, fault \in Faults : ProcessPayment(r, fault)
  \/ \E fault \in Faults : CancelOrder(fault)

Spec == Init /\ [][Next]_vars

\* ------------------------------------------- the totals calculator alone
TotalsInit ==
  /\ orders = [id \in OrderIds |-> NoOrder]
  /\ simCalls = 0
  /\ call = Idle
  /\ resp = NoReply
  /\ simLast = NoSim
  /\ calcIn \in ItemLists
  /\ calcOut = NoTotals
  /\ NumbersIdle
  /\ listed = NoPage
  /\ HttpIdle
  /\ fetched = NoFetch
  /\ RaceIdle

Calculate ==
  /\ calcOut = NoTotals
  /\ calcOut' = calculateOrderTotals(calcIn)
  /\ UNCHANGED <<orders, simCalls, call, resp, simLast, calcIn, numberVars, listed, httpVars, fetched,
               raceVars>>

TotalsNext == Calculate

TotalsSpec == TotalsInit /\ [][TotalsNext]_vars

\* ------------------------------------------- the paginated list alone
\* A collection of up to MaxDocs orders, as createOrder leaves them.
PageInit ==
  /\ \E n \in 0 .. MaxDocs :
       \E created \in [1 .. n -> CreateRequests] :
         orders = [i \in 1 .. n |->
                     preSave(NewOrder(created[i].userId, created[i].items,
                                      created[i].currency), TRUE, 1, i - 1)]
  /\ simCalls = 0
  /\ call = Idle
  /\ resp = NoReply
  /\ simLast = NoSim
  /\ calcIn = <<>>
  /\ calcOut = NoTotals
  /\ NumbersIdle
  /\ listed = NoPage
  /\ HttpIdle
  /\ fetched = NoFetch
  /\ RaceIdle

PageNext ==
  \/ \E userId \in Users, paging \in PageArgs :
       Receive([op |-> "getOrdersByUserId", id |-> userId, arg |-> paging])
  \/ \E fault \in {"none", "find"} : GetOrdersByUserId(fault)

PageSpec == PageInit /\ [][PageNext]_vars

\* ------------------------------------- overlapping saves of new orders
\* Mutant of insertOne: the collection has no unique index on orderNumber.
insertOne_NoUniqueIndex(collection, orderNumber) ==
  [error |-> "none", collection |-> Append(collection, orderNumber)]

\* The store inserts a document: the unique index on orderNumber rejects
\* a number that a persisted document already has.
insertOne(collection, orderNumber) ==
  IF \E i \in DOMAIN collection : collection[i] = orderNumber
    THEN [error |-> "Error", collection |-> collection]
    ELSE [error |-> "none", collection |-> Append(collection, orderNumber)]

\* Time passes.
Tick ==
  /\ now < MaxClock
  /\ now' = now + 1
  /\ UNCHANGED <<orders, simCalls, call, resp, simLast, calcIn, calcOut,
               creators, numbers, listed, httpVars, fetched, raceVars>>

\* The pre-save hook of creator p reads the document count.
CountDocuments(p) ==
  /\ creators[p].pc = "start"
  /\ creators' = [creators EXCEPT ![p].pc = "counted", ![p].count = Len(numbers)]
  /\ UNCHANGED <<orders, simCalls, call, resp, simLast, calcIn, calcOut,
               now, numbers, listed, httpVars, fetched, raceVars>>

\* The hook resumes, reads the clock and sets the order number.
SetOrderNumber(p) ==
  /\ creators[p].pc = "counted"
  /\ creators' = [creators EXCEPT
                    ![p].pc = "numbered",
                    ![p].orderNumber = orderNumberFor(now, creators[p].count)]
  /\ UNCHANGED <<orders, simCalls, call, resp, simLast, calcIn, calcOut,
               now, numbers, listed, httpVars, fetched, raceVars>>

\* The document of creator p reaches the store; createOrder returns it, or
\* throws DatabaseError when the store rejects it.
Insert(p) ==
  /\ creators[p].pc = "numbered"
  /\ LET inserted == insertOne(numbers, creators[p].orderNumber)
     IN  /\ numbers' = inserted.collection
         /\ creators' = [creators EXCEPT
                           ![p].pc = IF inserted.error = "none"
                                       THEN "saved" ELSE RethrowCreate(inserted.error)]
  /\ UNCHANGED <<orders, simCalls, call, resp, simLast, calcIn, calcOut,
               now, listed, httpVars, fetched, raceVars>>

NumbersNext ==
  \/ Tick
  \/ \E p \in Creators : CountDocuments(p)
  \/ \E p \in Creators : SetOrderNumber(p)
  \/ \E p \in Creators : Insert(p)

NumbersSpec == Init /\ [][NumbersNext]_vars

\* -------------------------------------------------------- the controller
\* Bodies posted to POST /: the valid requests, one without items and one
\* with an empty user id (0).
CreateBodies ==
  CreateRequests
    \cup {[userId |-> 1, items |-> <<>>, currency |-> "USD"],
          [userId |-> 0, items |-> <<40000>>, currency |-> "USD"]}

\* The page and limit query parameters of GET /user/:userId, parsed.
QueryArgs ==
  {[page |-> Undefined, limit |-> Undefined],
   [page |-> 0, limit |-> 0],
   [page |-> 2, limit |-> 1]}

\* The HTTP requests of the six routes.  An absent body field is "".
Requests ==
  {[route |-> "createOrder", id |-> 0, body |-> body] : body \in CreateBodies}
    \cup {[route |-> "getOrder", id |-> id, body |-> "none"] : id \in OrderIds}
    \cup {[route |-> "getUserOrders", id |-> userId, body |-> query] :
            userId \in Users, query \in QueryArgs}
    \cup {[route |-> "updateOrderStatus", id |-> id, body |-> [status |-> status]] :
            id \in OrderIds, status \in OrderStatus \cup {"", "archived"}}
    \cup {[route |-> "processPayment", id |-> id, body |-> [paymentMethod |-> method]] :
            id \in OrderIds, method \in PaymentMethod \cup {"", "bitcoin"}}
    \cup {[route |-> "cancelOrder", id |-> id, body |-> fields] :
            id \in OrderIds,
            fields \in [reason : {"", "changed mind"}, cancelledBy : {"", "customer"}]}

\* Whether a body passes the schema (item and address fields left out).
CreateOrderSchema(body) == body.userId # 0 /\ Len(body.items) >= 1

UpdateOrderStatusSchema(body) == body.status \in OrderStatus

\* Schema.parse(body): what it throws, or "none".
parse(passes) == IF passes THEN "none" ELSE "ZodError"

\* Mutant of paymentMethodCheck: any stated payment method is accepted.
paymentMethodCheck_AnyMethod(body) ==
  IF body.paymentMethod = "" THEN "ValidationError" ELSE "none"

\* The check of the processPayment route on its body.
paymentMethodCheck(body) ==
  IF body.paymentMethod = "" \/ body.paymentMethod \notin PaymentMethod
    THEN "ValidationError" ELSE "none"

\* The check of the cancelOrder route on its body.
cancelFieldsCheck(body) ==
  IF body.reason = "" \/ body.cancelledBy = "" THEN "ValidationError" ELSE "none"

\* What the controller method throws before it calls the service, or "none".
controllerCheck(q) ==
  CASE q.route = "createOrder" -> parse(CreateOrderSchema(q.body))
    [] q.route = "updateOrderStatus" -> parse(UpdateOrderStatusSchema(q.body))
    [] q.route = "processPayment" -> paymentMethodCheck(q.body)
    [] q.route = "cancelOrder" -> cancelFieldsCheck(q.body)
    [] OTHER -> "none"

\* parseInt(text) || fallback
queryNumber(parsed, fallback) ==
  IF parsed = Undefined \/ parsed = 0 THEN fallback ELSE parsed

\* The service call the controller method makes for a request it accepts.
serviceCall(q) ==
  CASE q.route = "createOrder" -> [op |-> "createOrder", id |-> 0, arg |-> q.body]
    [] q.route = "getOrder" -> [op |-> "getOrderById", id |-> q.id, arg |-> "none"]
    [] q.route = "getUserOrders" ->
         [op |-> "getOrdersByUserId", id |-> q.id,
          arg |-> [page |-> queryNumber(q.body.page, 1),
                   limit |-> queryNumber(q.body.limit, 10)]]
    [] q.route = "updateOrderStatus" ->
         [op |-> "updateOrderStatus", id |-> q.id, arg |-> q.body.status]
    [] q.route = "processPayment" ->
         [op |-> "processPayment", id |-> q.id, arg |-> q.body.paymentMethod]
    [] q.route = "cancelOrder" -> [op |-> "cancelOrder", id |-> q.id, arg |-> "none"]

\* The statusCode and errorCode fields of the error classes.
statusCode(error) ==
  CASE error = "ValidationError" -> 400
    [] error = "NotFoundError" -> 404
    [] error = "BusinessError" -> 422
    [] error = "PaymentError" -> 402
    [] error = "DatabaseError" -> 500

errorCode(error) ==
  CASE error = "ValidationError" -> "VALIDATION_ERROR"
    [] error = "NotFoundError" -> "NOT_FOUND"
    [] error = "BusinessError" -> "BUSINESS_ERROR"
    [] error = "PaymentError" -> "PAYMENT_ERROR"
    [] error = "DatabaseError" -> "DATABASE_ERROR"

\* The message of a thrown error: what it says depends on what was thrown.
messageOf(error) == <<"message of", error>>

\* Mutant of handleError: a database error is answered with its own message.
handleError_ExposesDatabaseError(error) ==
  IF error = "ValidationError"
    THEN [status |-> 400, success |-> FALSE, code |-> errorCode(error),
          message |-> messageOf(error), details |-> TRUE]
  ELSE IF error = "NotFoundError"
    THEN [status |-> 404, success |-> FALSE, code |-> errorCode(error),
          message |-> messageOf(error), details |-> FALSE]
  ELSE IF error = "BusinessError"
    THEN [status |-> 422, success |-> FALSE, code |-> errorCode(error),
          message |-> messageOf(error), details |-> FALSE]
  ELSE IF error = "DatabaseError"
    THEN [status |-> 500, success |-> FALSE, code |-> "INTERNAL_ERROR",
          message |-> messageOf(error), details |-> FALSE]
  ELSE [status |-> 500, success |-> FALSE, code |-> "INTERNAL_ERROR",
        message |-> <<"An internal server error occurred">>, details |-> FALSE]

\* The response the controller sends for an error it caught.
handleError(error) ==
  IF error = "ValidationError"
    THEN [status |-> 400, success |-> FALSE, code |-> errorCode(error),
          message |-> messageOf(error), details |-> TRUE]
  ELSE IF error = "NotFoundError"
    THEN [status |-> 404, success |-> FALSE, code |-> errorCode(error),
          message |-> messageOf(error), details |-> FALSE]
  ELSE IF error = "BusinessError"
    THEN [status |-> 422, success |-> FALSE, code |-> errorCode(error),
          message |-> messageOf(error), details |-> FALSE]
  ELSE [status |-> 500, success |-> FALSE, code |-> "INTERNAL_ERROR",
        message |-> <<"An internal server error occurred">>, details |-> FALSE]

\* The response the controller method sends when the service returned.
success(route) ==
  [status |-> IF route = "createOrder" THEN 201 ELSE 200, success |-> TRUE,
   code |-> "none", message |-> <<"success">>, details |-> FALSE]

\* A request arrives at its route.  Requests are handled one after another;
\* the collection is full after MaxOrders documents and the simulator is
\* used at most MaxPayments times.
HttpReceive(q) ==
  /\ req = NoReq
  /\ call = Idle
  /\ q.route = "createOrder" => \E free \in OrderIds : orders[free] = NoOrder
  /\ q.route = "processPayment" => simCalls < MaxPayments
  /\ req' = q
  /\ http' = NoHttp
  /\ resp' = NoReply
  /\ simLast' = NoSim
  /\ listed' = NoPage
  /\ fetched' = NoFetch
  /\ UNCHANGED <<orders, simCalls, call, calcIn, calcOut, numberVars, raceVars>>

\* The controller method up to its call of the service: it answers a
\* request it rejects through handleError, and calls the service otherwise.
Validate ==
  /\ req # NoReq
  /\ call = Idle
  /\ resp = NoReply
  /\ IF controllerCheck(req) # "none"
       THEN /\ http' = handleError(controllerCheck(req))
            /\ req' = NoReq
            /\ call' = call
       ELSE /\ call' = serviceCall(req)
            /\ UNCHANGED <<req, http>>
  /\ UNCHANGED <<orders, simCalls, resp, simLast, calcIn, calcOut, numberVars, listed, fetched,
               raceVars>>

\* The service call has returned or thrown: the controller method answers.
Respond ==
  /\ req # NoReq
  /\ call = Idle
  /\ resp # NoReply
  /\ http' = IF resp.res = "ok" THEN success(req.route) ELSE handleError(resp.res)
  /\ req' = NoReq
  /\ UNCHANGED <<orders, simCalls, call, resp, simLast, calcIn, calcOut, numberVars, listed, fetched,
               raceVars>>

HttpNext ==
  \/ \E q \in Requests : HttpReceive(q)
  \/ Validate
  \/ \E fault \in {"none", "save"} : CreateOrder(fault)
  \/ \E fault \in {"none", "find"} : GetOrderById(fault)
  \/ \E fault \in {"none", "find"} : GetOrdersByUserId(fault)
  \/ \E fault \in Faults : UpdateOrderStatus(fault)
  \/ \E r \in RandomDraws, fault \in Faults : ProcessPayment(r, fault)
  \/ \E fault \in Faults : CancelOrder(fault)
  \/ Respond

HttpSpec == Init /\ [][HttpNext]_vars

\* ------------------------------------------ overlapping calls on one order
\* The calls that overlap, all on the order with id 1.
RaceCalls ==
  {[op |-> "updateOrderStatus", arg |-> status] : status \in OrderStatus}
    \cup {[op |-> "processPayment", arg |-> method] : method \in {"credit_card", "stripe"}}
    \cup {[op |-> "cancelOrder", arg |-> "none"]}

\* Mutant of save: the write is refused when the stored document is no
\* longer the one that was read.
save_Versioned(stored, read, mine) ==
  IF stored # read
    THEN [error |-> "Error", order |-> stored]
    ELSE [error |-> "none", order |-> mine]

\* order.save() of a document that was read as read and is now mine in
\* memory: the fields that were modified are written over the stored
\* document, whatever it holds by now.
save(stored, read, mine) ==
  [error |-> "none",
   order |-> [field \in DOMAIN stored |->
                IF mine[field] # read[field] THEN mine[field] ELSE stored[field]]]

\* One order exists, as createOrder left it.
RaceInit ==
  /\ \E r \in CreateRequests :
       orders = [id \in OrderIds |->
                  IF id = 1
                    THEN preSave(NewOrder(r.userId, r.items, r.currency), TRUE, 1, 0)
                    ELSE NoOrder]
  /\ simCalls = 0
  /\ call = Idle
  /\ resp = NoReply
  /\ simLast = NoSim
  /\ calcIn = <<>>
  /\ calcOut = NoTotals
  /\ NumbersIdle
  /\ listed = NoPage
  /\ HttpIdle
  /\ fetched = NoFetch
  /\ RaceIdle

\* A client makes call c; task t handles it.
Start(t, c) ==
  /\ tasks[t] = NoTask
  /\ tasks' = [tasks EXCEPT ![t] = [NoTask EXCEPT !.op = c.op, !.arg = c.arg, !.pc = "called"]]
  /\ UNCHANGED <<orders, simCalls, call, resp, simLast, calcIn, calcOut, numberVars, listed,
                 httpVars, fetched, pay, reader>>

\* findById returns and the method runs up to its next await: it throws,
\* or changes the document in memory and saves, or calls the payment
\* service.
Read(t) ==
  /\ tasks[t].pc = "called"
  /\ LET order == orders[1]
         refused ==
           CASE tasks[t].op = "updateOrderStatus" ->
                  IF validateStatusTransition(order.status, tasks[t].arg) # "ok"
                    THEN validateStatusTransition(order.status, tasks[t].arg) ELSE "none"
             [] tasks[t].op = "processPayment" -> paymentRefusal(order)
             [] tasks[t].op = "cancelOrder" -> cancelRefusal(order)
         mine ==
           CASE tasks[t].op = "updateOrderStatus" -> [order EXCEPT !.status = tasks[t].arg]
             [] tasks[t].op = "processPayment" -> order
             [] tasks[t].op = "cancelOrder" -> [order EXCEPT !.status = "cancelled"]
     IN  tasks' = [tasks EXCEPT ![t] =
                     IF refused # "none"
                       THEN [@ EXCEPT !.pc = "done", !.read = order, !.res = RethrowTyped(refused)]
                       ELSE [@ EXCEPT
                               !.pc = IF tasks[t].op = "processPayment" THEN "paying" ELSE "saving",
                               !.read = order,
                               !.mine = mine]]
  /\ UNCHANGED <<orders, simCalls, call, resp, simLast, calcIn, calcOut, numberVars, listed,
                 httpVars, fetched, pay, reader>>

\* The payment service returns to processPayment, which applies the
\* outcome to the document in memory, or throws.
Charge(t, r) ==
  /\ tasks[t].pc = "paying"
  /\ LET paymentData == paymentRequest(1, tasks[t].arg, tasks[t].read)
         paymentResult == simulatePaymentOutcome(paymentData, simCalls + 1, r)
     IN  tasks' = [tasks EXCEPT ![t] =
                     IF paymentResult.error # "none"
                       THEN [@ EXCEPT !.pc = "done", !.outcome = paymentResult.error,
                                      !.res = RethrowTyped(paymentResult.error)]
                       ELSE [@ EXCEPT !.pc = "saving", !.outcome = paymentResult.status,
                                      !.mine = withPaymentResult(tasks[t].read, paymentResult)]]
  /\ simCalls' = simCalls + 1
  /\ UNCHANGED <<orders, call, resp, simLast, calcIn, calcOut, numberVars, listed,
                 httpVars, fetched, pay, reader>>

\* The save of task t reaches the store and the call returns.
Save(t) ==
  /\ tasks[t].pc = "saving"
  /\ LET mine == preSave(tasks[t].mine, FALSE, now, documentCount(orders))
         saved == save(orders[1], tasks[t].read, mine)
     IN  /\ orders' = [orders EXCEPT ![1] = saved.order]
         /\ tasks' = [tasks EXCEPT ![t].pc = "done",
                                   ![t].res = IF saved.error = "none"
                                                THEN "ok" ELSE RethrowTyped(saved.error)]
  /\ UNCHANGED <<simCalls, call, resp, simLast, calcIn, calcOut, numberVars, listed,
                 httpVars, fetched, pay, reader>>

RaceNext ==
  \/ \E t \in Tasks, c \in RaceCalls : Start(t, c)
  \/ \E t \in Tasks : Read(t)
  \/ \E t \in Tasks, r \in RandomDraws : Charge(t, r)
  \/ \E t \in Tasks : Save(t)

RaceSpec == RaceInit /\ [][RaceNext]_vars

\* ------------------------------------------- payment service, by steps
\* One run of PaymentService.processPayment, statement by statement. pay
\* holds the request, the time waited (ms), the number of Math.random()
\* values drawn, the payment id generated (0: none) and the outcome.
PayAmounts ==
  {PaymentCeiling * 100 - 1, PaymentCeiling * 100, PaymentCeiling * 100 + 1}

\* Math.floor(Math.random() * 2000) + 1000, in milliseconds.
Delays == {1000, 2000, 2999}

\* processPayment is called and logs the request.
PayCall(amount, paymentMethod) ==
  /\ pay.pc \in {"none", "returned", "threw"}
  /\ simCalls < MaxPayments
  /\ pay' = [NoPay EXCEPT !.pc = "called", !.amount = amount,
                          !.paymentMethod = paymentMethod]
  /\ UNCHANGED <<orders, simCalls, call, resp, simLast, calcIn, calcOut,
                 numberVars, listed, httpVars, fetched, tasks, reader>>

\* await this.simulateProcessingDelay(): draws the delay and waits for it.
simulateProcessingDelay(delay) ==
  /\ pay.pc = "called"
  /\ pay' = [pay EXCEPT !.pc = "delayed", !.elapsed = delay, !.draws = @ + 1]
  /\ UNCHANGED <<orders, simCalls, call, resp, simLast, calcIn, calcOut,
                 numberVars, listed, httpVars, fetched, tasks, reader>>

\* The first two statements of simulatePaymentOutcome: uuidv4() and the
\* transaction id, which draws Math.random().
GenerateIds ==
  /\ pay.pc = "delayed"
  /\ simCalls' = simCalls + 1
  /\ pay' = [pay EXCEPT !.pc = "ids", !.paymentId = simCalls + 1, !.draws = @ + 1]
  /\ UNCHANGED <<orders, call, resp, simLast, calcIn, calcOut,
                 numberVars, listed, httpVars, fetched, tasks, reader>>

\* if (paymentData.amount > 10000) throw new PaymentError(...)
CeilingCheck ==
  /\ pay.pc = "ids"
  /\ LET paymentData == [amount |-> pay.amount, paymentMethod |-> pay.paymentMethod]
         result == simulatePaymentOutcome(paymentData, pay.paymentId, 50)
     IN  pay' = IF result.error # "none"
                  THEN [pay EXCEPT !.pc = "threw", !.outcome = result.error]
                  ELSE [pay EXCEPT !.pc = "checked"]
  /\ UNCHANGED <<orders, simCalls, call, resp, simLast, calcIn, calcOut,
                 numberVars, listed, httpVars, fetched, tasks, reader>>

\* The branches on the payment method and the default success case.
MethodOutcome(r) ==
  /\ pay.pc = "checked"
  /\ LET paymentData == [amount |-> pay.amount, paymentMethod |-> pay.paymentMethod]
         result == simulatePaymentOutcome(paymentData, pay.paymentId, r)
     IN  pay' = [pay EXCEPT !.pc = "returned", !.outcome = result.status,
                            !.draws = IF pay.paymentMethod \in {"credit_card", "paypal"}
                                        THEN @ + 1 ELSE @]
  /\ UNCHANGED <<orders, simCalls, call, resp, simLast, calcIn, calcOut,
                 numberVars, listed, httpVars, fetched, tasks, reader>>

PayNext ==
  \/ \E amount \in PayAmounts, paymentMethod \in PaymentMethod :
       PayCall(amount, paymentMethod)
  \/ \E delay \in Delays : simulateProcessingDelay(delay)
  \/ GenerateIds
  \/ CeilingCheck
  \/ \E r \in RandomDraws : MethodOutcome(r)

PaySpec == Init /\ [][PayNext]_vars

\* ------------------------------- the paginated list, read by read
\* One getOrdersByUserId call, its two store reads taken one at a time in
\* either order, while createOrder calls of other clients commit. reader
\* holds the arguments, the reads still pending, what each read returned,
\* the states of the collection during the call, and the result.

\* Mutant of listResult: the total is the length of the page.
listResult_TotalOfPage(page, limit, found, total) ==
  [orders |-> found, total |-> Len(found), page |-> page,
   totalPages |-> Ceil(Len(found), limit)]

\* The object getOrdersByUserId returns for what the two reads gave.
listResult(page, limit, found, total) ==
  [orders |-> found, total |-> total, page |-> page,
   totalPages |-> Ceil(total, limit)]

\* getOrdersByUserId is called: skip is computed and both reads are issued.
ListCall(userId, args) ==
  /\ reader.pc \in {"none", "returned"}
  /\ reader' =
       [NoReader EXCEPT
          !.pc = "reading",
          !.userId = userId,
          !.page = IF args.page = Undefined THEN DefaultPage ELSE args.page,
          !.limit = IF args.limit = Undefined THEN DefaultLimit ELSE args.limit,
          !.pending = {"find", "countDocuments"},
          !.instants = {orders}]
  /\ UNCHANGED <<orders, simCalls, call, resp, simLast, calcIn, calcOut,
                 numberVars, listed, httpVars, fetched, tasks, pay>>

\* The store answers OrderModel.find(...).sort(...).skip(skip).limit(limit).
ReadPage ==
  /\ reader.pc = "reading"
  /\ "find" \in reader.pending
  /\ reader' =
       [reader EXCEPT
          !.pending = @ \ {"find"},
          !.found = find(orders, reader.userId,
                         pageSkip(reader.page, reader.limit), reader.limit)]
  /\ UNCHANGED <<orders, simCalls, call, resp, simLast, calcIn, calcOut,
                 numberVars, listed, httpVars, fetched, tasks, pay>>

\* The store answers OrderModel.countDocuments({ userId }).
ReadCount ==
  /\ reader.pc = "reading"
  /\ "countDocuments" \in reader.pending
  /\ reader' =
       [reader EXCEPT
          !.pending = @ \ {"countDocuments"},
          !.total = countDocuments(orders, reader.userId)]
  /\ UNCHANGED <<orders, simCalls, call, resp, simLast, calcIn, calcOut,
                 numberVars, listed, httpVars, fetched, tasks, pay>>

\* Promise.all resolves and the result is returned.
ListReturn ==
  /\ reader.pc = "reading"
  /\ reader.pending = {}
  /\ reader' =
       [reader EXCEPT
          !.pc = "returned",
          !.result = listResult(reader.page, reader.limit, reader.found, reader.total)]
  /\ UNCHANGED <<orders, simCalls, call, resp, simLast, calcIn, calcOut,
                 numberVars, listed, httpVars, fetched, tasks, pay>>

\* The save of a createOrder call of another client commits.
Commit(r) ==
  /\ Len(orders) < MaxDocs
  /\ orders' = Append(orders, preSave(NewOrder(r.userId, r.items, r.currency),
                                      TRUE, now, Len(orders)))
  /\ reader' = IF reader.pc = "reading"
                 THEN [reader EXCEPT !.instants = @ \cup {orders'}]
                 ELSE reader
  /\ UNCHANGED <<simCalls, call, resp, simLast, calcIn, calcOut,
                 numberVars, listed, httpVars, fetched, tasks, pay>>

ListNext ==
  \/ \E userId \in Users, args \in FewPageArgs : ListCall(userId, args)
  \/ ReadPage
  \/ ReadCount
  \/ ListReturn
  \/ \E r \in CreateRequests : Commit(r)

ListSpec == PageInit /\ [][ListNext]_vars

\* =============================================================== claims
\* The legal state graph of order statuses, as the specification lists it.
LegalNext(status) ==
  CASE status = "pending" -> {"confirmed", "cancelled"}
    [] status = "confirmed" -> {"processing", "cancelled"}
    [] status = "processing" -> {"shipped", "cancelled"}
    [] status = "shipped" -> {"delivered"}
    [] status = "delivered" -> {"refunded"}
    [] status = "cancelled" -> {}
    [] status = "refunded" -> {}

Exists(id) == orders[id] # NoOrder

\* A step in which the handler of the call op runs, from start to end.
Handles(op) == call.op = op /\ call' = Idle

\* C1: an updateOrderStatus call on an existing order, when the store does
\* not throw, succeeds and stores status = requested if and only if requested
\* is in the allowed set of the current status; otherwise it fails with a
\* BusinessError and changes nothing (so requested = current is rejected for
\* every status).  A throwing store gives a DatabaseError and no change.
C1_UpdateFollowsGraph ==
  [][(Handles("updateOrderStatus") /\ Exists(call.id)) =>
       /\ resp'.op = "updateOrderStatus"
       /\ ~resp'.threw =>
            IF call.arg \in LegalNext(orders[call.id].status)
              THEN /\ resp'.res = "ok"
                   /\ orders' = [orders EXCEPT ![call.id].status = call.arg]
              ELSE resp'.res = "BusinessError" /\ orders' = orders
       /\ (~resp'.threw /\ call.arg = orders[call.id].status) =>
            resp'.res = "BusinessError"
       /\ resp'.threw => (resp'.res = "DatabaseError" /\ orders' = orders)]_vars

\* C1 witness: a request was rejected on an order that earlier requests had
\* moved along the graph to delivered.
C1_Witness ==
  /\ resp = Reply("updateOrderStatus", FALSE, "BusinessError")
  /\ \E id \in OrderIds : Exists(id) /\ orders[id].status = "delivered"

\* C2: every change of a stored order's status, by any operation, follows an
\* edge of the legal state graph.
C2_EveryChangeIsAnEdge ==
  [][\A id \in OrderIds :
       (Exists(id) /\ orders'[id].status # orders[id].status) =>
         orders'[id].status \in LegalNext(orders[id].status)]_vars

\* C3: once an order is refunded, no later call changes its status.
C3_RefundedIsTerminal ==
  [][\A id \in OrderIds :
       (Exists(id) /\ orders[id].status = "refunded") =>
         orders'[id].status = "refunded"]_vars

\* C4: once an order is cancelled its status stays cancelled, and every
\* updateOrderStatus, processPayment and cancelOrder call on it fails with a
\* BusinessError (with a DatabaseError if the store lookup throws), writes
\* nothing and does not reach the payment simulator.
C4_CancelledIsTerminal ==
  [][/\ \A id \in OrderIds :
          (Exists(id) /\ orders[id].status = "cancelled") =>
            orders'[id].status = "cancelled"
     /\ ((Handles("updateOrderStatus") \/ Handles("processPayment")
            \/ Handles("cancelOrder"))
           /\ Exists(call.id) /\ orders[call.id].status = "cancelled") =>
          /\ resp'.op = call.op
          /\ resp'.res = IF resp'.threw THEN "DatabaseError" ELSE "BusinessError"
          /\ orders' = orders
          /\ simCalls' = simCalls]_vars

\* C4 witness: a payment request was refused on a cancelled order whose
\* payment is not completed.
C4_Witness ==
  /\ resp = Reply("processPayment", FALSE, "BusinessError")
  /\ \E id \in OrderIds :
       /\ Exists(id)
       /\ orders[id].status = "cancelled"
       /\ orders[id].paymentStatus = "failed"

\* C5: cancelOrder, when the store does not throw: NotFoundError on a missing
\* order; BusinessError on a cancelled, shipped or delivered order; on every
\* other status the stored status becomes cancelled, nothing else changes and
\* the call succeeds.  A throwing store gives a DatabaseError and no change.
C5_CancelOrderContract ==
  [][Handles("cancelOrder") =>
       /\ resp'.op = "cancelOrder"
       /\ resp'.threw => (resp'.res = "DatabaseError" /\ orders' = orders)
       /\ ~resp'.threw =>
            IF ~Exists(call.id)
              THEN resp'.res = "NotFoundError" /\ orders' = orders
            ELSE IF orders[call.id].status \in {"cancelled", "shipped", "delivered"}
              THEN resp'.res = "BusinessError" /\ orders' = orders
            ELSE /\ resp'.res = "ok"
                 /\ orders' = [orders EXCEPT ![call.id].status = "cancelled"]]_vars

\* C5 witness: a confirmed, paid order was cancelled.
C5_Witness ==
  /\ resp = Reply("cancelOrder", FALSE, "ok")
  /\ \E id \in OrderIds :
       /\ Exists(id)
       /\ orders[id].status = "cancelled"
       /\ orders[id].paymentStatus = "completed"

\* C6: processPayment refuses a missing order (NotFoundError), an order whose
\* payment is completed and a cancelled order (BusinessError) without invoking
\* the payment simulator, and does not invoke it either when the store lookup
\* throws; in every other case it invokes the simulator exactly once, with
\* the order's stored totalAmount and currency.
C6_ChecksBeforeSimulator ==
  [][Handles("processPayment") =>
       IF ~Exists(call.id)
         THEN /\ resp'.res = IF resp'.threw THEN "DatabaseError" ELSE "NotFoundError"
              /\ simCalls' = simCalls /\ simLast' = simLast
       ELSE IF orders[call.id].paymentStatus = "completed"
                 \/ orders[call.id].status = "cancelled"
         THEN /\ resp'.res = IF resp'.threw THEN "DatabaseError" ELSE "BusinessError"
              /\ simCalls' = simCalls /\ simLast' = simLast
       ELSE \/ /\ resp' = Reply("processPayment", TRUE, "DatabaseError")
               /\ simCalls' = simCalls /\ simLast' = simLast
            \/ /\ simCalls' = simCalls + 1
               /\ simLast'.amount = orders[call.id].totalAmount
               /\ simLast'.currency = orders[call.id].currency]_vars

\* C6 witness: a payment request was refused, after an earlier one had gone
\* through the simulator and completed the order's payment.
C6_Witness ==
  /\ resp = Reply("processPayment", FALSE, "BusinessError")
  /\ simCalls >= 1
  /\ simLast = NoSim
  /\ \E id \in OrderIds :
       /\ Exists(id)
       /\ orders[id].paymentStatus = "completed"
       /\ orders[id].status # "cancelled"

\* C7: when the simulator returns an outcome and the write does not throw,
\* processPayment succeeds and stores the outcome's status and paymentId; a
\* completed outcome confirms the order, a failed one leaves its status as it
\* was; nothing else changes.
C7_OutcomeIsStored ==
  [][(Handles("processPayment")
        /\ simLast'.outcome \in {"completed", "failed"}
        /\ ~resp'.threw) =>
       /\ resp' = Reply("processPayment", FALSE, "ok")
       /\ simLast'.paymentId # 0
       /\ orders' = [orders EXCEPT ![call.id] =
            [orders[call.id] EXCEPT
               !.paymentStatus = simLast'.outcome,
               !.paymentId = simLast'.paymentId,
               !.status = IF simLast'.outcome = "completed"
                            THEN "confirmed" ELSE orders[call.id].status]]]_vars

\* C7 witness: a failed outcome was stored on an order in processing, which
\* stayed in processing.
C7_Witness ==
  /\ resp = Reply("processPayment", FALSE, "ok")
  /\ simLast.outcome = "failed"
  /\ \E id \in OrderIds :
       /\ Exists(id)
       /\ orders[id].status = "processing"
       /\ orders[id].paymentStatus = "failed"
       /\ orders[id].paymentId = simLast.paymentId

\* C8: whatever the payment method and the random draw, a simulator request
\* for more than 10000 ends in a PaymentError, never in an outcome, and
\* processPayment throws that PaymentError and writes nothing; a request for
\* 10000 or less is not rejected.
C8_CeilingRejects ==
  [][(Handles("processPayment") /\ simCalls' = simCalls + 1) =>
       /\ simLast'.amount > 10000 * 100 =>
            /\ simLast'.outcome = "PaymentError"
            /\ resp' = Reply("processPayment", FALSE, "PaymentError")
            /\ orders' = orders
       /\ simLast'.amount <= 10000 * 100 =>
            /\ simLast'.outcome \in {"completed", "failed"}
            /\ resp'.res # "PaymentError"]_vars

\* C8 witness: a request for more than 10000 was rejected.
C8_Witness ==
  /\ resp = Reply("processPayment", FALSE, "PaymentError")
  /\ simLast.outcome = "PaymentError"
  /\ simLast.amount > 10000 * 100

\* C9: the returned totals add up, totalAmount = subtotal + taxAmount +
\* shippingAmount - discountAmount, for every non-empty item list.
C9_TotalsAddUp ==
  calcOut # NoTotals =>
    calcOut.totalAmount =
      calcOut.subtotal + calcOut.taxAmount + calcOut.shippingAmount
        - calcOut.discountAmount

\* C10: shipping is 0 exactly when the sum of the item prices is strictly
\* greater than 50, and 10 otherwise, a sum of exactly 50 included.
C10_ShippingThreshold ==
  calcOut # NoTotals =>
    /\ Sum(calcIn) > 50 * 1000 => calcOut.shippingAmount = 0
    /\ Sum(calcIn) <= 50 * 1000 => calcOut.shippingAmount = 10 * 100

\* C10 witness: an item list summing to exactly 50 was charged 10.
C10_Witness ==
  /\ calcOut # NoTotals
  /\ Sum(calcIn) = 50 * 1000
  /\ Len(calcIn) = 2
  /\ calcOut.shippingAmount = 10 * 100

C12_CreateOrderContract ==
  [][Handles("createOrder") =>
       IF resp'.threw
         THEN /\ resp' = Reply("createOrder", TRUE, "DatabaseError")
              /\ orders' = orders
         ELSE /\ resp' = Reply("createOrder", FALSE, "ok")
              /\ \E id \in OrderIds :
                   LET totals == calculateOrderTotals(call.arg.items)
                   IN  /\ orders[id] = NoOrder
                       /\ \A other \in OrderIds \ {id} : orders'[other] = orders[other]
                       /\ orders'[id].status = "pending"
                       /\ orders'[id].paymentStatus = "pending"
                       /\ orders'[id].items = call.arg.items
                       /\ orders'[id].subtotal = totals.subtotal
                       /\ orders'[id].taxAmount = totals.taxAmount
                       /\ orders'[id].shippingAmount = totals.shippingAmount
                       /\ orders'[id].discountAmount = totals.discountAmount
                       /\ orders'[id].totalAmount = totals.totalAmount]_vars

\* C12 witness: an order for one item of 40.00 was created pending, with
\* tax 4.00, shipping 10.00, no discount and total 54.00.
C12_Witness ==
  /\ resp = Reply("createOrder", FALSE, "ok")
  /\ \E id \in OrderIds :
       /\ Exists(id)
       /\ orders[id].status = "pending"
       /\ orders[id].paymentStatus = "pending"
       /\ orders[id].subtotal = 4000
       /\ orders[id].taxAmount = 400
       /\ orders[id].shippingAmount = 1000
       /\ orders[id].discountAmount = 0
       /\ orders[id].totalAmount = 5400

\* C13: no two persisted orders have the same order number, also when
\* several createOrder calls overlap so that each reads the document
\* count before any of them has saved.
C13_OrderNumbersUnique ==
  \A i, j \in DOMAIN numbers : numbers[i] = numbers[j] => i = j

\* C13 witness: two overlapping creations read the same count in the same
\* millisecond and got the same order number; one was persisted and the
\* other was rejected.
C13_Witness ==
  \E p, q \in Creators :
    /\ creators[p].pc = "saved"
    /\ creators[q].pc = "DatabaseError"
    /\ creators[p].count = creators[q].count
    /\ creators[p].orderNumber = creators[q].orderNumber
    /\ Len(numbers) = 1

\* C14: for page >= 1 and limit >= 1 (defaults 1 and 10) getOrdersByUserId
\* asks the store for the user's orders, latest first, with skip =
\* (page - 1) * limit and limit = limit, and returns that page of orders,
\* the page number, total = the number of the user's orders and
\* totalPages = ceil(total / limit), 0 when total is 0.
C14_Pagination ==
  [][(Handles("getOrdersByUserId") /\ ~resp'.threw) =>
       LET page == IF call.arg.page = Undefined THEN 1 ELSE call.arg.page
           limit == IF call.arg.limit = Undefined THEN 10 ELSE call.arg.limit
           mine == {id \in DOMAIN orders : Exists(id) /\ orders[id].userId = call.id}
           total == Cardinality(mine)
           rest == IF total > (page - 1) * limit THEN total - (page - 1) * limit ELSE 0
       IN  /\ resp' = Reply("getOrdersByUserId", FALSE, "ok")
           /\ listed'.skip = (page - 1) * limit
           /\ listed'.limit = limit
           /\ listed'.page = page
           /\ listed'.total = total
           /\ listed'.totalPages * limit >= total
           /\ (listed'.totalPages - 1) * limit < total
           /\ total = 0 => listed'.totalPages = 0
           /\ Len(listed'.orders) = (IF rest < limit THEN rest ELSE limit)
           /\ \A k \in DOMAIN listed'.orders :
                /\ listed'.orders[k] \in mine
                /\ Cardinality({id \in mine : id > listed'.orders[k]})
                     = (page - 1) * limit + k - 1
           /\ orders' = orders]_vars

\* C14 witness: page 2 with limit 2 of a user with three orders skipped
\* two orders and returned the oldest one, of 2 pages.
C14_Witness ==
  /\ resp = Reply("getOrdersByUserId", FALSE, "ok")
  /\ listed # NoPage
  /\ listed.page = 2
  /\ listed.skip = 2
  /\ listed.limit = 2
  /\ listed.total = 3
  /\ listed.totalPages = 2
  /\ Len(listed.orders) = 1

\* A step in which the controller answers the request it is handling.
Answers == req # NoReq /\ req' = NoReq

\* C15: a POST / or PATCH /:id/status request whose body fails its schema
\* is answered with HTTP 400 and success false, and the order service is
\* not called.
C15_InvalidBodyGets400 ==
  [][(\/ req.route = "createOrder" /\ ~CreateOrderSchema(req.body)
      \/ req.route = "updateOrderStatus" /\ ~UpdateOrderStatusSchema(req.body)) =>
       /\ Answers
       /\ http'.status = 400
       /\ ~http'.success
       /\ call' = Idle
       /\ resp' = NoReply
       /\ orders' = orders]_vars

\* C16: the response to an error that reaches handleError is determined by
\* the kind of the error: ValidationError gives 400 with the error's code,
\* message and details, NotFoundError 404 with NOT_FOUND, BusinessError 422
\* with BUSINESS_ERROR, and every other error 500 with INTERNAL_ERROR and
\* the fixed message, not the error's own.
C16_HandleErrorMapping ==
  [][(Answers /\ ~http'.success) =>
       LET error == IF resp = NoReply THEN controllerCheck(req) ELSE resp.res
       IN  CASE error = "ValidationError" ->
                  /\ http'.status = 400
                  /\ http'.code = "VALIDATION_ERROR"
                  /\ http'.message = messageOf(error)
                  /\ http'.details
             [] error = "NotFoundError" ->
                  /\ http'.status = 404
                  /\ http'.code = "NOT_FOUND"
                  /\ http'.message = messageOf(error)
             [] error = "BusinessError" ->
                  /\ http'.status = 422
                  /\ http'.code = "BUSINESS_ERROR"
                  /\ http'.message = messageOf(error)
             [] OTHER ->
                  /\ http'.status = 500
                  /\ http'.code = "INTERNAL_ERROR"
                  /\ http'.message = <<"An internal server error occurred">>]_vars

\* C16 witness: a DatabaseError thrown by the service was answered with
\* 500, INTERNAL_ERROR and the fixed message.
C16_Witness ==
  /\ resp.res = "DatabaseError"
  /\ req = NoReq
  /\ http.status = 500
  /\ http.code = "INTERNAL_ERROR"
  /\ http.message = <<"An internal server error occurred">>

\* C17: the response to a typed error thrown by the service carries that
\* error's own status code (400, 404, 422, 402, 500) and its own code.
C17_TypedErrorsPassUnchanged ==
  [][(Answers /\ resp # NoReply /\ resp.res \in CustomError) =>
       /\ http'.status = statusCode(resp.res)
       /\ http'.code = errorCode(resp.res)]_vars

C20_RejectedBeforeService ==
  [][(\/ req.route = "processPayment" /\ req.body.paymentMethod \notin PaymentMethod
      \/ req.route = "cancelOrder" /\ (req.body.reason = "" \/ req.body.cancelledBy = "")) =>
       /\ Answers
       /\ http'.status = 400
       /\ ~http'.success
       /\ call = Idle /\ call' = Idle
       /\ resp = NoReply /\ resp' = NoReply
       /\ orders' = orders
       /\ simCalls' = simCalls
       /\ simLast' = NoSim]_vars

\* C20 witness: a request was rejected by a controller check with 400
\* while a pending order existed, which is still pending and unpaid.
C20_Witness ==
  /\ http.status = 400
  /\ http.code = "VALIDATION_ERROR"
  /\ req = NoReq
  /\ resp = NoReply
  /\ \E id \in OrderIds :
       Exists(id) /\ orders[id].status = "pending" /\ orders[id].paymentStatus = "pending"

\* C19: getOrderById returns the stored order when the id exists, throws
\* a NotFoundError naming the id when it does not and a DatabaseError when
\* the lookup throws, and never modifies an order.
C19_GetOrderByIdContract ==
  [][Handles("getOrderById") =>
       /\ orders' = orders
       /\ IF resp'.threw
            THEN resp' = Reply("getOrderById", TRUE, "DatabaseError")
          ELSE IF Exists(call.id)
            THEN /\ resp' = Reply("getOrderById", FALSE, "ok")
                 /\ fetched' = [id |-> call.id, order |-> orders[call.id]]
          ELSE /\ resp' = Reply("getOrderById", FALSE, "NotFoundError")
               /\ fetched'.id = call.id]_vars

\* C19 witness: getOrderById returned a confirmed, paid order.
C19_Witness ==
  /\ resp = Reply("getOrderById", FALSE, "ok")
  /\ fetched.order = orders[fetched.id]
  /\ fetched.order.status = "confirmed"
  /\ fetched.order.paymentStatus = "completed"

\* C21: when calls among updateOrderStatus, processPayment and cancelOrder
\* on one order overlap, each save succeeds without error and puts the
\* status its call set over whatever an earlier save has written; so a
\* processPayment that read the order before a cancelOrder committed can
\* turn the cancelled order into a confirmed one.
C21_LaterSaveWins ==
  [][\A t \in Tasks :
       (tasks[t].pc = "saving" /\ tasks'[t].pc = "done") =>
         /\ tasks'[t].res = "ok"
         /\ tasks[t].mine.status # tasks[t].read.status =>
              orders'[1].status = tasks[t].mine.status]_vars

\* C21 witness: a cancelOrder and a processPayment both returned without
\* error and the order is confirmed and paid.
C21_Witness ==
  \E t, u \in Tasks :
    /\ tasks[t].op = "cancelOrder" /\ tasks[t].res = "ok"
    /\ tasks[u].op = "processPayment" /\ tasks[u].res = "ok"
    /\ tasks[u].read.status = "pending"
    /\ orders[1].status = "confirmed"
    /\ orders[1].paymentStatus = "completed"

\* C22: for one order the payment simulator returns a completed outcome
\* at most once, and a payment status of completed never changes again,
\* also when processPayment calls on the order overlap.
C22_ChargedOnce ==
  [][/\ Cardinality({t \in Tasks : tasks'[t].outcome = "completed"}) <= 1
     /\ orders[1].paymentStatus = "completed" =>
          orders'[1].paymentStatus = "completed"]_vars

\* C23: a request over the ceiling is rejected at once: when the simulator
\* throws PaymentError, no delay has been waited for, no random value has
\* been drawn and no payment id has been generated.
C23_CeilingBeforeDelay ==
  pay.pc = "threw" => pay.elapsed = 0 /\ pay.draws = 0 /\ pay.paymentId = 0

\* C24: a service call that ends in an error leaves every stored order as it
\* was; in particular updateOrderStatus with an illegal transition,
\* processPayment on a paid or cancelled order or with an amount over the
\* ceiling, and cancelOrder on a cancelled, shipped or delivered order end in
\* an error and write nothing.
C24_ErrorsWriteNothing ==
  [][/\ (call # Idle /\ call' = Idle /\ resp'.res # "ok") => orders' = orders
     /\ (/\ call # Idle /\ call' = Idle
         /\ call.op \in {"updateOrderStatus", "processPayment", "cancelOrder"}
         /\ Exists(call.id)
         /\ LET order == orders[call.id]
            IN  \/ /\ call.op = "updateOrderStatus"
                   /\ call.arg \notin LegalNext(order.status)
                \/ /\ call.op = "processPayment"
                   /\ \/ order.paymentStatus = "completed"
                      \/ order.status = "cancelled"
                      \/ order.totalAmount > PaymentCeiling * 100
                \/ /\ call.op = "cancelOrder"
                   /\ order.status \in {"cancelled", "shipped", "delivered"})
        => /\ resp'.res \in {"BusinessError", "PaymentError", "DatabaseError"}
           /\ orders' = orders]_vars

\* A payment was refused on an order that is already paid.
C24_Witness ==
  /\ resp.op = "processPayment" /\ resp.res = "BusinessError"
  /\ \E id \in OrderIds : Exists(id) /\ orders[id].paymentStatus = "completed"

\* C25: an order is shipped or delivered only if its payment is completed.
C25_ShippedOnlyIfPaid ==
  \A id \in OrderIds :
    (Exists(id) /\ orders[id].status \in {"shipped", "delivered"})
      => orders[id].paymentStatus = "completed"

\* C26: no order is cancelled while its payment is completed.
C26_CancelledNeverPaid ==
  \A id \in OrderIds :
    (Exists(id) /\ orders[id].status = "cancelled")
      => orders[id].paymentStatus # "completed"

\* C27: no step changes the orderNumber, userId, items, currency or one of
\* the five monetary fields of an order that exists (updateOrderStatus,
\* processPayment and cancelOrder write nothing but status, paymentStatus and
\* paymentId), and an order number is given exactly when a new order is saved.
FrameFields ==
  {"orderNumber", "userId", "items", "currency", "subtotal", "taxAmount",
   "shippingAmount", "discountAmount", "totalAmount"}

C27_WritersKeepFrame ==
  [][\A id \in OrderIds :
       /\ Exists(id) =>
            \A field \in FrameFields : orders'[id][field] = orders[id][field]
       /\ (~Exists(id) /\ orders'[id] # NoOrder) =>
            /\ Handles("createOrder")
            /\ orders'[id].orderNumber = orderNumberFor(now, documentCount(orders))]_vars

\* An order was paid after its status had been updated, and has the number
\* its first save gave it.
C27_Witness ==
  /\ resp = Reply("processPayment", FALSE, "ok")
  /\ orders[1].paymentId # 0
  /\ orders[1].orderNumber = orderNumberFor(1, 0)

\* C28: for an amount of at most 10000 the simulator returns completed or
\* failed; it returns failed only for credit_card and paypal, so debit_card,
\* stripe and bank_transfer are completed whatever is drawn.
C28_OutcomeByMethod ==
  (pay.pc = "returned" /\ pay.amount <= PaymentCeiling * 100) =>
    /\ pay.outcome \in {"completed", "failed"}
    /\ pay.outcome = "failed" => pay.paymentMethod \in {"credit_card", "paypal"}
    /\ pay.paymentMethod \in {"debit_card", "stripe", "bank_transfer"}
         => pay.outcome = "completed"

\* A debit card payment of exactly 10000 was completed; no value is drawn
\* for it after the two of the delay and the transaction id.
C28_Witness ==
  /\ pay.pc = "returned"
  /\ pay.paymentMethod = "debit_card"
  /\ pay.amount = PaymentCeiling * 100
  /\ pay.outcome = "completed"
  /\ pay.draws = 2

\* An order whose total is over the payment ceiling.
OverCeiling(order) == order # NoOrder /\ order.totalAmount > PaymentCeiling * 100

\* C29, as stated: an order with a total over 10000 stays unpaid, and every
\* processPayment call on it fails with a PaymentError and changes nothing.
C29_AlwaysPaymentError ==
  [][/\ \A id \in OrderIds :
          OverCeiling(orders'[id]) => orders'[id].paymentStatus = "pending"
     /\ (Handles("processPayment") /\ OverCeiling(orders[call.id])) =>
          /\ resp'.res = "PaymentError"
          /\ orders' = orders]_vars

\* C29, amended: an order with a total over 10000 stays unpaid, and every
\* processPayment call on it fails and changes nothing: with a DatabaseError
\* when the store throws, with a BusinessError when the order is cancelled,
\* and with a PaymentError otherwise, whatever the payment method.
C29_OverCeilingNeverPaid ==
  [][/\ \A id \in OrderIds :
          OverCeiling(orders'[id]) => orders'[id].paymentStatus = "pending"
     /\ (Handles("processPayment") /\ OverCeiling(orders[call.id])) =>
          /\ resp'.res =
               IF resp'.threw THEN "DatabaseError"
               ELSE IF orders[call.id].status = "cancelled" THEN "BusinessError"
               ELSE "PaymentError"
          /\ orders' = orders]_vars

\* A payment on a confirmed order over the ceiling failed with a
\* PaymentError and left it unpaid.
C29_Witness ==
  /\ resp = Reply("processPayment", FALSE, "PaymentError")
  /\ \E id \in OrderIds :
       /\ OverCeiling(orders[id])
       /\ orders[id].status = "confirmed"
       /\ orders[id].paymentStatus = "pending"

\* C30: the page and the count of getOrdersByUserId are two reads, each of
\* the collection as it is at some instant of the call, not necessarily the
\* same one: the result agrees with a single instant when nothing commits
\* during the call, and otherwise need not agree with any.
C30_TwoIndependentReads ==
  reader.pc = "returned" =>
    LET skip == pageSkip(reader.page, reader.limit)
    IN  /\ \E instant \in reader.instants :
             reader.result.orders = find(instant, reader.userId, skip, reader.limit)
        /\ \E instant \in reader.instants :
             reader.result.total = countDocuments(instant, reader.userId)
        /\ reader.result.page = reader.page
        /\ reader.result.totalPages = Ceil(reader.result.total, reader.limit)
        /\ Cardinality(reader.instants) = 1 =>
             \E instant \in reader.instants :
               /\ reader.result.orders = find(instant, reader.userId, skip, reader.limit)
               /\ reader.result.total = countDocuments(instant, reader.userId)

\* A createOrder committed between the count and the page read: the first
\* page returned holds more orders than the total returned, which no
\* instant of the collection gives.
C30_Witness ==
  /\ reader.pc = "returned"
  /\ reader.result.page = 1
  /\ Len(reader.result.orders) > reader.result.total
  /\ \A instant \in reader.instants :
       \/ reader.result.orders #
            find(instant, reader.userId, pageSkip(reader.page, reader.limit), reader.limit)
       \/ reader.result.total # countDocuments(instant, reader.userId)

====
